---------------------------- MODULE Spec2Model ----------------------------
(***************************************************************************)
(* Model of the popularity-debiasing recommender classes of                *)
(*   src/baselines/abstract_recommender.py  (SequentialRecommender)        *)
(*   src/baselines/sasrecn.py               (SASRecN)                      *)
(*                                                                         *)
(* Item k of the catalog (0-based in the code) is stored at position k+1   *)
(* of every sequence.  dataset.counter(...) is a Counter: a missing key    *)
(* reads as 0, so a count vector holds 0 for an item never seen.           *)
(* Python exceptions are the value of err ("none" when the call returned). *)
(***************************************************************************)
EXTENDS Integers, Sequences, FiniteSets, TLC

VARIABLES
    pc,          \* "new": inputs chosen; "ready": constructed; "failed": __init__ raised
    config,      \* the configuration mapping read by the constructors
    dataset,     \* the dataset collaborator: [n_items, counter]
    self,        \* the model object's attributes
    err,         \* exception raised by the last call, "none" if it returned
    trace,       \* arguments the last call handed to math.log and used as divisor
    call,        \* the last method called with its inputs
    ret          \* what the last call returned

vars == <<pc, config, dataset, self, err, trace, call, ret>>

-----------------------------------------------------------------------------
(* Bounds of the explored inputs *)

MaxItems == 4
MaxCount == 4
MaxLabelCount == 3

-----------------------------------------------------------------------------
(* Python / numpy primitives *)

\* the count passed on as it is
Clamp_Unclamped(v) == v

\* max(v, 1)
Clamp(v) == IF v > 1 THEN v ELSE 1

\* Python 3 round(num / den) for num >= 0, den > 0: round half to even
PyRound(num, den) ==
    LET q == num \div den
        r == num % den
    IN  IF 2 * r < den THEN q
        ELSE IF 2 * r > den THEN q + 1
        ELSE IF q % 2 = 0 THEN q ELSE q + 1

\* floor(e^(k - 1/2)) for k = 1..6: round(ln v) >= k  iff  v > floor(e^(k - 1/2))
LogThresholds == <<1, 4, 12, 33, 90, 244>>

\* int(math.log(v)): v >= e^k  iff  v > floor(e^k)
RoundLog_Floor(v) == Cardinality({k \in 1..5 : v > <<2, 7, 20, 54, 148>>[k]})

\* round(math.log(v)) for an integer 1 <= v <= 244 (ln v is never a half-integer)
RoundLog(v) == Cardinality({k \in DOMAIN LogThresholds : v > LogThresholds[k]})

RECURSIVE SeqMax(_)
\* max(list) of a non-empty list
SeqMax(s) ==
    IF Len(s) = 1 THEN s[1]
    ELSE LET m == SeqMax(Tail(s)) IN IF s[1] >= m THEN s[1] ELSE m

RECURSIVE ArgSortsOf(_, _)
\* every order in which the positions in rest can be listed by ascending value
ArgSortsOf(s, rest) ==
    IF rest = {} THEN {<<>>}
    ELSE LET least == {i \in rest : \A j \in rest : s[i] <= s[j]}
         IN  UNION {{<<i - 1>> \o p : p \in ArgSortsOf(s, rest \ {i})} : i \in least}

\* np.argsort(s) with the default kind: lidx[i] is the 0-based index of the
\* i-th smallest element; the default sort is not stable, equal elements may
\* come in any order
ArgSorts(s) == ArgSortsOf(s, DOMAIN s)

RECURSIVE SortedOf(_, _)
SortedOf(s, rest) ==
    IF rest = {} THEN <<>>
    ELSE LET i == CHOOSE i \in rest : \A j \in rest : s[i] <= s[j]
         IN  <<s[i]>> \o SortedOf(s, rest \ {i})

\* list.sort(): the values in ascending order
Sorted(s) == SortedOf(s, DOMAIN s)

-----------------------------------------------------------------------------
(* SequentialRecommender.cal_popular *)

Strategies == {"log", "avg", "arg"}

\* lines 182-186: label.append(max(self.item_cnt[item_k], 1)) for every item
ClampedCounts(n_items, item_cnt) == [k \in 1..n_items |-> Clamp(item_cnt[k])]

\* int(...) in place of round(...)
PopLabel_Trunc(strategy, lcnt, v, max_pop, lidx, i) ==
    IF strategy = "avg" THEN (lcnt * v) \div max_pop
    ELSE IF strategy = "arg" THEN (lcnt * lidx[i]) \div Len(lidx)
    ELSE RoundLog(v)

\* 'arg' computed from the count itself in place of the sort position
PopLabel_ByValue(strategy, lcnt, v, max_pop, lidx, i) ==
    IF strategy = "avg" THEN PyRound(lcnt * v, max_pop)
    ELSE IF strategy = "arg" THEN PyRound(lcnt * v, Len(lidx))
    ELSE RoundLog(v)

\* lines 194-198: the label of position i (1-based) with clamped count v
PopLabel(strategy, lcnt, v, max_pop, lidx, i) ==
    IF strategy = "avg" THEN PyRound(lcnt * v, max_pop)
    ELSE IF strategy = "arg" THEN PyRound(lcnt * lidx[i], Len(lidx))
    ELSE RoundLog(v)

\* lines 181-201: the labels and what was evaluated on the way; lidx is the
\* outcome of np.argsort(label)
CalPopular(n_items, item_cnt, strategy, lcnt, lidx) ==
    LET label == ClampedCounts(n_items, item_cnt)
        max_pop == SeqMax(label)
    IN  IF \E i \in 1..n_items : label[i] <= 0
        THEN \* math.log of a value that is not positive: "math domain error"
             [label |-> <<>>, err |-> "ValueError", log_args |-> label, divisors |-> <<>>]
        ELSE [label |-> [i \in 1..n_items |->
                           PopLabel(strategy, lcnt, label[i], max_pop, lidx, i)],
              err |-> "none",
              log_args |-> label,
              divisors |-> IF strategy = "avg" THEN <<max_pop>>
                           ELSE IF strategy = "arg" THEN <<Len(lidx)>>
                           ELSE <<>>]

-----------------------------------------------------------------------------
(* The model object *)

\* an object no constructor has touched: no attribute is set
Blank ==
    [cls |-> "none", attrs |-> {}, n_items |-> 0, item_cnt |-> <<>>,
     label_strategy |-> "none", label_count |-> 0, label |-> <<>>,
     pop_label |-> <<>>, loss_type |-> "none", loss_fct |-> "none",
     c |-> 0, item_embedding |-> <<>>, fc_user |-> 0, fc_item |-> 0,
     config |-> "none", dataset |-> "none",
     bias_label |-> <<>>, bias_idx |-> <<>>, b_ratio |-> <<0, 1>>]

\* no method has been called yet; nothing was returned or printed
Called(op, lidx, seq_output, items) ==
    [op |-> op, lidx |-> lidx, seq_output |-> seq_output, items |-> items]

NoCall == Called("none", <<>>, <<>>, <<>>)

NoReturn == [kind |-> "none"]

\* what a call leaves behind: the object, the exception, the evaluated arguments
Outcome(obj, e, la, dv) == [self |-> obj, err |-> e, log_args |-> la, divisors |-> dv]

\* attributes SequentialRecommender.__init__ assigns before it calls cal_popular
BaseAttrs ==
    {"USER_ID", "ITEM_ID", "ITEM_SEQ", "ITEM_SEQ_LEN", "POS_ITEM_ID", "NEG_ITEM_ID",
     "max_seq_length", "n_items", "device", "label", "pop_label", "name",
     "item_cnt", "label_strategy", "label_count", "epoch", "vis", "prefix"}

\* attributes SASRecN.__init__ assigns between super().__init__ and the loss choice
LayerAttrs ==
    {"n_layers", "n_heads", "hidden_size", "inner_size", "hidden_dropout_prob",
     "attn_dropout_prob", "hidden_act", "layer_norm_eps", "initializer_range",
     "loss_type", "item_embedding", "position_embedding", "trm_encoder",
     "LayerNorm", "dropout", "fc_item", "fc_user", "c", "alpha"}

\* SequentialRecommender.cal_popular as a method: self.label is replaced
SequentialRecommender_cal_popular(obj, lidx) ==
    LET r == CalPopular(obj.n_items, obj.item_cnt, obj.label_strategy,
                        obj.label_count, lidx)
    IN  Outcome([obj EXCEPT !.label = r.label], r.err, r.log_args, r.divisors)

\* SASRecN.cal_popular: reads self.config and self.dataset, labels by round(ln)
SASRecN_cal_popular(obj) ==
    LET o1 == [obj EXCEPT !.label = <<>>, !.attrs = @ \cup {"label"}]
    IN  IF "config" \notin o1.attrs \/ "dataset" \notin o1.attrs
        THEN Outcome(o1, "AttributeError", <<>>, <<>>)
        ELSE LET cnt == o1.dataset.counter
                 v == [k \in 1..o1.n_items |-> Clamp(cnt[k])]
             IN  Outcome([o1 EXCEPT !.attrs = @ \cup {"name", "item_cnt"},
                                    !.item_cnt = cnt,
                                    !.label = [k \in 1..o1.n_items |-> RoundLog(v[k])]],
                         "none", v, <<>>)

\* self.cal_popular(): the method of the object's own class is the one called
cal_popular(obj, lidx) ==
    IF obj.cls = "SASRecN" THEN SASRecN_cal_popular(obj)
    ELSE SequentialRecommender_cal_popular(obj, lidx)

\* SequentialRecommender.__init__ run on an object of class cls; lidx is what
\* np.argsort returns if the inherited cal_popular is the one that runs
SequentialRecommender_init(cls, cfg, ds, lidx) ==
    cal_popular([Blank EXCEPT !.cls = cls,
                              !.attrs = BaseAttrs,
                              !.n_items = ds.n_items,
                              !.item_cnt = ds.counter,
                              !.label_strategy = cfg.label,
                              !.label_count = cfg.lcnt],
                lidx)

\* the loss function SASRecN.__init__ selects, "none" when it raises instead
LossFct(loss_type) ==
    IF loss_type = "BPR" THEN "BPRLoss"
    ELSE IF loss_type = "CE" THEN "CrossEntropyLoss"
    ELSE "none"

\* SASRecN.__init__ after super().__init__ has returned obj (lines 40-92);
\* weights are the values the parameters are initialised to
SASRecN_init_body(obj, cfg, ds, weights) ==
    LET o1 == [obj EXCEPT !.attrs = @ \cup LayerAttrs,
                          !.loss_type = cfg.loss_type,
                          !.c = cfg.biasc]
    IN  IF LossFct(cfg.loss_type) = "none"
        THEN Outcome(o1, "NotImplementedError", <<>>, <<>>)
        ELSE SASRecN_cal_popular(
                 [o1 EXCEPT !.attrs = @ \cup {"loss_fct", "config", "dataset"},
                            !.loss_fct = LossFct(cfg.loss_type),
                            !.item_embedding = weights.item_embedding,
                            !.fc_user = weights.fc_user,
                            !.fc_item = weights.fc_item,
                            !.config = cfg,
                            !.dataset = ds,
                            !.pop_label = <<>>])

\* SASRecN.__init__: an exception of super().__init__ ends the construction
SASRecN_init(cfg, ds, weights) ==
    LET b == SequentialRecommender_init("SASRecN", cfg, ds, <<>>)
    IN  IF b.err # "none" THEN b
        ELSE LET r == SASRecN_init_body(b.self, cfg, ds, weights)
             IN  Outcome(r.self, r.err, b.log_args \o r.log_args, b.divisors)

-----------------------------------------------------------------------------
(* SequentialRecommender.calcualte_bias_label *)

\* whether the Python list index i (negative: from the end) is in a list of n
PyIndexOK(n, i) == -n <= i /\ i < n

\* Python s[i]
PyIndex(s, i) == IF i >= 0 THEN s[i + 1] ELSE s[Len(s) + i + 1]

\* int(n * r) for the ratio r = <<numerator, denominator>>: truncation toward 0
TruncMul(n, r) ==
    IF r[1] >= 0 THEN (n * r[1]) \div r[2] ELSE -((n * (-r[1])) \div r[2])

\* the low test made independently of the high test (if ... if, not if ... elif)
BiasStep_NoElif(acc, i, v, bias_line, nobias_line, mid_i) ==
    LET hi == IF v >= bias_line
              THEN [acc EXCEPT !.bias_label = Append(@, 1),
                               !.bias_idx = Append(@, i - 1),
                               !.bias_cnt = @ + 1]
              ELSE acc
    IN  IF v <= nobias_line /\ ~(mid_i < hi.nobias_cnt)
        THEN [hi EXCEPT !.bias_label = Append(@, 0),
                        !.bias_idx = Append(@, i - 1),
                        !.nobias_cnt = @ + 1]
        ELSE hi

\* the cap on label-0 entries tested as mid_i <= nobias_cnt
BiasStep_CapAtMid(acc, i, v, bias_line, nobias_line, mid_i) ==
    IF v >= bias_line
    THEN [acc EXCEPT !.bias_label = Append(@, 1),
                     !.bias_idx = Append(@, i - 1),
                     !.bias_cnt = @ + 1]
    ELSE IF v <= nobias_line
    THEN IF mid_i <= acc.nobias_cnt
         THEN acc
         ELSE [acc EXCEPT !.bias_label = Append(@, 0),
                          !.bias_idx = Append(@, i - 1),
                          !.nobias_cnt = @ + 1]
    ELSE acc

\* lines 265-274: one round of the loop, for item i-1 with clamped count v
BiasStep(acc, i, v, bias_line, nobias_line, mid_i) ==
    IF v >= bias_line
    THEN [acc EXCEPT !.bias_label = Append(@, 1),
                     !.bias_idx = Append(@, i - 1),
                     !.bias_cnt = @ + 1]
    ELSE IF v <= nobias_line
    THEN IF mid_i < acc.nobias_cnt
         THEN acc
         ELSE [acc EXCEPT !.bias_label = Append(@, 0),
                          !.bias_idx = Append(@, i - 1),
                          !.nobias_cnt = @ + 1]
    ELSE acc

RECURSIVE BiasLoop(_, _, _, _, _, _)
\* lines 264-274: for i, v in enumerate(bias)
BiasLoop(acc, i, bias, bias_line, nobias_line, mid_i) ==
    IF i > Len(bias) THEN acc
    ELSE BiasLoop(BiasStep(acc, i, bias[i], bias_line, nobias_line, mid_i),
                  i + 1, bias, bias_line, nobias_line, mid_i)

\* calcualte_bias_label with the two lists written over label and item_cnt
calcualte_bias_label_IntoLabel(obj) ==
    IF "b_ratio" \notin obj.attrs
    THEN [self |-> obj, err |-> "AttributeError", ret |-> NoReturn]
    ELSE [self |-> [obj EXCEPT !.label = <<>>, !.item_cnt = <<>>],
          err |-> "none", ret |-> [kind |-> "printed"]]

\* calcualte_bias_label without lines 261-262: the lists are appended to
calcualte_bias_label_Accumulating(obj) ==
    LET bias == ClampedCounts(obj.n_items, obj.item_cnt)
        bias_bak == Sorted(bias)
        n == Len(bias_bak)
    IN  IF "b_ratio" \notin obj.attrs
        THEN [self |-> obj, err |-> "AttributeError", ret |-> NoReturn]
        ELSE LET mid_i == TruncMul(n, obj.b_ratio)
             IN  IF ~PyIndexOK(n, -mid_i) \/ ~PyIndexOK(n, mid_i)
                 THEN [self |-> obj, err |-> "IndexError", ret |-> NoReturn]
                 ELSE LET bias_line == PyIndex(bias_bak, -mid_i)
                          nobias_line == PyIndex(bias_bak, mid_i)
                          r == BiasLoop([bias_label |-> obj.bias_label,
                                         bias_idx |-> obj.bias_idx,
                                         bias_cnt |-> 0, nobias_cnt |-> 0],
                                        1, bias, bias_line, nobias_line, mid_i)
                      IN  [self |-> [obj EXCEPT !.attrs = @ \cup {"bias_label", "bias_idx"},
                                                !.bias_label = r.bias_label,
                                                !.bias_idx = r.bias_idx],
                           err |-> "none",
                           ret |-> [kind |-> "printed",
                                    bias_line |-> bias_line, bias_cnt |-> r.bias_cnt,
                                    nobias_line |-> nobias_line,
                                    nobias_cnt |-> r.nobias_cnt]]

\* lines 250-278; the object and the values the last line prints
calcualte_bias_label(obj) ==
    LET bias == ClampedCounts(obj.n_items, obj.item_cnt)
        bias_bak == Sorted(bias)
        n == Len(bias_bak)
    IN  IF "b_ratio" \notin obj.attrs
        THEN [self |-> obj, err |-> "AttributeError", ret |-> NoReturn]
        ELSE LET mid_i == TruncMul(n, obj.b_ratio)
             IN  IF ~PyIndexOK(n, -mid_i) \/ ~PyIndexOK(n, mid_i)
                 THEN [self |-> obj, err |-> "IndexError", ret |-> NoReturn]
                 ELSE LET bias_line == PyIndex(bias_bak, -mid_i)
                          nobias_line == PyIndex(bias_bak, mid_i)
                          r == BiasLoop([bias_label |-> <<>>, bias_idx |-> <<>>,
                                         bias_cnt |-> 0, nobias_cnt |-> 0],
                                        1, bias, bias_line, nobias_line, mid_i)
                      IN  [self |-> [obj EXCEPT !.attrs = @ \cup {"bias_label", "bias_idx"},
                                                !.bias_label = r.bias_label,
                                                !.bias_idx = r.bias_idx],
                           err |-> "none",
                           ret |-> [kind |-> "printed",
                                    bias_line |-> bias_line, bias_cnt |-> r.bias_cnt,
                                    nobias_line |-> nobias_line,
                                    nobias_cnt |-> r.nobias_cnt]]

-----------------------------------------------------------------------------
(* Tensors: [err, shape, at]; shape is the list of dimensions, at maps every  *)
(* index tuple (1-based) to the element.  A tensor operation that raises      *)
(* gives a tensor whose err names the exception.  Elements are exact          *)
(* integers; probabilities are in hundredths.                                 *)

Indices(shape) ==
    IF Len(shape) = 0 THEN {<<>>}
    ELSE IF Len(shape) = 1 THEN {<<i>> : i \in 1..shape[1]}
    ELSE {<<i, j>> : i \in 1..shape[1], j \in 1..shape[2]}

Raised(e) == [err |-> e, shape |-> <<>>, at |-> <<>>]

\* a 0-dimensional tensor holding x (a Python number in tensor arithmetic)
Scalar(x) == [err |-> "none", shape |-> <<>>, at |-> [idx \in {<<>>} |-> x]]

RECURSIVE Restore(_, _)
\* the index into a tensor of the given shape that the index idx of its
\* squeezed form stands for
Restore(idx, shape) ==
    IF Len(shape) = 0 THEN <<>>
    ELSE IF shape[1] = 1 THEN <<1>> \o Restore(idx, Tail(shape))
    ELSE <<idx[1]>> \o Restore(Tail(idx), Tail(shape))

\* Tensor.squeeze(): every dimension of size 1 is removed
Squeeze(t) ==
    IF t.err # "none" THEN t
    ELSE LET shape == SelectSeq(t.shape, LAMBDA d : d # 1)
         IN  [err |-> "none", shape |-> shape,
              at |-> [idx \in Indices(shape) |-> t.at[Restore(idx, t.shape)]]]

\* Tensor.unsqueeze(dim), dim >= 0: a dimension of size 1 is inserted at dim;
\* "Dimension out of range" when dim exceeds the number of dimensions
Unsqueeze(t, dim) ==
    IF t.err # "none" THEN t
    ELSE IF dim > Len(t.shape) THEN Raised("IndexError")
    ELSE LET shape == SubSeq(t.shape, 1, dim) \o <<1>>
                          \o SubSeq(t.shape, dim + 1, Len(t.shape))
         IN  [err |-> "none", shape |-> shape,
              at |-> [idx \in Indices(shape) |->
                        t.at[SubSeq(idx, 1, dim) \o SubSeq(idx, dim + 2, Len(idx))]]]

RECURSIVE Pad(_, _)
\* the shape padded on the left with 1s to r dimensions
Pad(shape, r) == IF Len(shape) >= r THEN shape ELSE Pad(<<1>> \o shape, r)

Max2(a, b) == IF a >= b THEN a ELSE b

RECURSIVE Compatible(_, _)
\* two aligned shapes go together when every pair of dimensions is equal
\* or has a 1
Compatible(pa, pb) ==
    \/ pa = <<>>
    \/ /\ Head(pa) = Head(pb) \/ Head(pa) = 1 \/ Head(pb) = 1
       /\ Compatible(Tail(pa), Tail(pb))

RECURSIVE Widest(_, _)
\* the larger of every pair of dimensions of two aligned shapes
Widest(pa, pb) ==
    IF pa = <<>> THEN <<>>
    ELSE <<Max2(Head(pa), Head(pb))>> \o Widest(Tail(pa), Tail(pb))

\* broadcasting: the shapes are aligned at the last dimension
Broadcastable(sa, sb) ==
    LET r == Max2(Len(sa), Len(sb)) IN Compatible(Pad(sa, r), Pad(sb, r))

BroadcastShape(sa, sb) ==
    LET r == Max2(Len(sa), Len(sb)) IN Widest(Pad(sa, r), Pad(sb, r))

\* the index of the operand of the given shape that the result index idx
\* reads: the shapes are aligned at the last dimension and a dimension of
\* size 1 is read at 1 (tensors here have at most two dimensions)
Proj(idx, shape) ==
    LET n == Len(idx)
        At(d, i) == IF d = 1 THEN 1 ELSE i
    IN  IF Len(shape) = 0 THEN <<>>
        ELSE IF Len(shape) = 1 THEN <<At(shape[1], idx[n])>>
        ELSE <<At(shape[1], idx[n - 1]), At(shape[2], idx[n])>>

\* a * b, elementwise with broadcasting
Mul(a, b) ==
    IF a.err # "none" THEN a
    ELSE IF b.err # "none" THEN b
    ELSE IF ~Broadcastable(a.shape, b.shape) THEN Raised("RuntimeError")
    ELSE LET shape == BroadcastShape(a.shape, b.shape)
         IN  [err |-> "none", shape |-> shape,
              at |-> [idx \in Indices(shape) |->
                        a.at[Proj(idx, a.shape)] * b.at[Proj(idx, b.shape)]]]

\* a - b, elementwise with broadcasting
Sub(a, b) ==
    IF a.err # "none" THEN a
    ELSE IF b.err # "none" THEN b
    ELSE IF ~Broadcastable(a.shape, b.shape) THEN Raised("RuntimeError")
    ELSE LET shape == BroadcastShape(a.shape, b.shape)
         IN  [err |-> "none", shape |-> shape,
              at |-> [idx \in Indices(shape) |->
                        a.at[Proj(idx, a.shape)] - b.at[Proj(idx, b.shape)]]]

\* sigmoid(x) in hundredths for x = -3..3, at position x + 4
SigmoidTable == <<5, 12, 27, 50, 73, 88, 95>>

\* torch.nn.Sigmoid() applied elementwise
Sigmoid(t) ==
    IF t.err # "none" THEN t
    ELSE [t EXCEPT !.at = [idx \in DOMAIN t.at |-> SigmoidTable[t.at[idx] + 4]]]

\* torch.nn.Linear(hidden_size, 1) on the rows of x (hidden_size is 1 here):
\* [rows, 1]
Linear(fc, x) ==
    [err |-> "none", shape |-> <<Len(x), 1>>,
     at |-> [idx \in Indices(<<Len(x), 1>>) |-> fc.w * x[idx[1]] + fc.b]]

\* torch.matmul(seq_output, item_emb.transpose(0, 1)): [B, n_items]
MatMul(seq_output, item_emb) ==
    [err |-> "none", shape |-> <<Len(seq_output), Len(item_emb)>>,
     at |-> [idx \in Indices(<<Len(seq_output), Len(item_emb)>>) |->
               seq_output[idx[1]] * item_emb[idx[2]]]]

\* torch.mul(seq_output, test_item_emb).sum(dim=1): [B]
RowDot(seq_output, test_item_emb) ==
    [err |-> "none", shape |-> <<Len(seq_output)>>,
     at |-> [idx \in Indices(<<Len(seq_output)>>) |->
               seq_output[idx[1]] * test_item_emb[idx[1]]]]

-----------------------------------------------------------------------------
(* SASRecN scoring: calculate_loss, predict, full_sort_predict.  seq_output *)
(* is what forward() returns for the batch: one hidden vector per query.   *)

\* the offset subtracted without the item-side probability
Adjust_OffsetNoItem(scores, user_score, item_scores, c) ==
    Sub(Mul(Mul(scores, user_score), item_scores), Mul(Scalar(c), user_score))

\* scores * user_score * item_scores - self.c * user_score * item_scores
Adjust(scores, user_score, item_scores, c) ==
    Sub(Mul(Mul(scores, user_score), item_scores),
        Mul(Mul(Scalar(c), user_score), item_scores))

\* Sigmoid()(self.fc_user(seq_output)).squeeze().unsqueeze(1)
UserScore(obj, seq_output) ==
    Unsqueeze(Squeeze(Sigmoid(Linear(obj.fc_user, seq_output))), 1)

\* Sigmoid()(self.fc_item(emb)).squeeze().unsqueeze(0)
ItemScores(obj, emb) ==
    Unsqueeze(Squeeze(Sigmoid(Linear(obj.fc_item, emb))), 0)

\* the adjusted [B, n_items] matrix of full_sort_predict and of the
\* cross-entropy branch of calculate_loss
FullScores(obj, seq_output) ==
    Adjust(MatMul(seq_output, obj.item_embedding),
           UserScore(obj, seq_output),
           ItemScores(obj, obj.item_embedding),
           obj.c)

\* SASRecN.predict: test_item holds one item index (0-based) per row
predict(obj, seq_output, test_item) ==
    LET test_item_emb == [q \in 1..Len(test_item) |-> obj.item_embedding[test_item[q] + 1]]
    IN  Adjust(RowDot(seq_output, test_item_emb),
               UserScore(obj, seq_output),
               ItemScores(obj, test_item_emb),
               obj.c)

TopK == 10

RECURSIVE SubsetsOfSize(_, _)
\* the subsets of S with m elements
SubsetsOfSize(S, m) ==
    IF m = 0 THEN {{}}
    ELSE IF S = {} THEN {}
    ELSE LET x == CHOOSE x \in S : TRUE
         IN  SubsetsOfSize(S \ {x}, m)
                 \cup {T \cup {x} : T \in SubsetsOfSize(S \ {x}, m - 1)}

\* scores.topk(TopK)[1] for one row: the index sets (0-based) topk may
\* return; which of several equal scores is taken is not specified
TopKSets(row, n) ==
    {(0..(n - 1)) \ X :
        X \in {Y \in SubsetsOfSize(0..(n - 1), n - TopK) :
                  \A b \in Y : \A a \in (0..(n - 1)) \ Y : row[a + 1] >= row[b + 1]}}

RECURSIVE SumLabels(_, _)
\* mypop: the labels of the items in S added up
SumLabels(label, S) ==
    IF S = {} THEN 0
    ELSE LET j == CHOOSE j \in S : TRUE
         IN  label[j + 1] + SumLabels(label, S \ {j})

\* scores[q]: the scores of query q, one per item
Row(scores, q) ==
    SubSeq([i \in 1..scores.shape[2] |-> scores.at[<<q, i>>]], 1, scores.shape[2])

\* the values mypop can take for query q of the score matrix
PopOfRow(obj, scores, q) ==
    {SumLabels(obj.label, S) : S \in TopKSets(Row(scores, q), obj.n_items)}

-----------------------------------------------------------------------------
(* Inputs *)

\* the two end-to-end scenarios of the specification's section 8
ScenarioCounters == {<<5, 1, 10, 2>>, <<1, 2, 3, 4, 5>>}

Counters ==
    UNION {[1..n -> 0..MaxCount] : n \in 1..MaxItems} \cup ScenarioCounters

Datasets == {[n_items |-> Len(cnt), counter |-> cnt] : cnt \in Counters}

SmallDatasets == {ds \in Datasets : ds.n_items <= 2}

LossTypes == {"BPR", "CE", "MSE"}

Configs ==
    [loss_type : LossTypes, label : Strategies, lcnt : 1..MaxLabelCount, biasc : {1}]

NoWeights == [item_embedding |-> <<>>, fc_user |-> 0, fc_item |-> 0]

InitWith(cfgs, dss) ==
    /\ pc = "new"
    /\ config \in cfgs
    /\ dataset \in dss
    /\ self = Blank
    /\ err = "none"
    /\ trace = [log_args |-> <<>>, divisors |-> <<>>]
    /\ call = NoCall
    /\ ret = NoReturn

Finish(r, op, lidx) ==
    /\ self' = r.self
    /\ err' = r.err
    /\ trace' = [log_args |-> r.log_args, divisors |-> r.divisors]
    /\ pc' = IF r.err = "none" THEN "ready" ELSE "failed"
    /\ call' = Called(op, lidx, <<>>, <<>>)
    /\ ret' = NoReturn
    /\ UNCHANGED <<config, dataset>>

\* SASRecN(config, dataset)
ConstructSASRecN ==
    /\ pc = "new"
    /\ Finish(SASRecN_init(config, dataset, NoWeights), "SASRecN", <<>>)

\* a sequential model that inherits cal_popular: SequentialRecommender(config, dataset)
ConstructSequentialRecommender ==
    /\ pc = "new"
    /\ \E lidx \in ArgSorts(ClampedCounts(dataset.n_items, dataset.counter)) :
           Finish(SequentialRecommender_init("SequentialRecommender", config, dataset, lidx),
                  "SequentialRecommender", lidx)

\* construction of the concrete model, over every loss type
Init == InitWith(Configs, SmallDatasets)
Next == ConstructSASRecN
Spec == Init /\ [][Next]_vars

\* the ratios b_ratio is drawn from: 0, 0.2, 0.4, 0.5, 0.6, 0.8, 1 and -0.4
Ratios == {<<0, 1>>, <<1, 5>>, <<2, 5>>, <<1, 2>>, <<3, 5>>, <<4, 5>>, <<1, 1>>, <<-2, 5>>}

\* model.calcualte_bias_label()
CalcualteBiasLabel ==
    /\ pc = "ready"
    /\ LET r == calcualte_bias_label(self)
       IN  /\ self' = r.self
           /\ err' = r.err
           /\ ret' = r.ret
    /\ call' = Called("calcualte_bias_label", <<>>, <<>>, <<>>)
    /\ UNCHANGED <<pc, config, dataset, trace>>

\* a constructed sequential model whose subclass has set b_ratio
InitBias ==
    /\ pc = "ready"
    /\ config = [loss_type |-> "CE", label |-> "log", lcnt |-> 1, biasc |-> 1]
    /\ dataset \in Datasets
    /\ \E ratio \in Ratios :
          self = [SequentialRecommender_init("SequentialRecommender", config,
                                             dataset, <<>>).self
                    EXCEPT !.attrs = @ \cup {"b_ratio"}, !.b_ratio = ratio]
    /\ err = "none"
    /\ trace = [log_args |-> <<>>, divisors |-> <<>>]
    /\ call = Called("SequentialRecommender", <<>>, <<>>, <<>>)
    /\ ret = NoReturn

NextBias == CalcualteBiasLabel
SpecBias == InitBias /\ [][NextBias]_vars

-----------------------------------------------------------------------------
(* The scoring methods of a SASRecN instance *)

MaxBatch == 2
MaxPopLabel == 2

\* hidden vectors forward() may return, embedding values, layer parameters
SeqVals == {-1, 2}
Linears == {[w |-> 1, b |-> 0], [w |-> -1, b |-> 1]}
ItemPicks == {0, 2}

\* an embedding table and a count vector for n items
EmbTable(n, a) == [i \in 1..n |-> ((a * i) % 3) - 1]
CountTable(n, a) == [i \in 1..n |-> (a * (i - 1)) % 6]

\* the two layers start from different parameters
ScoreWeights ==
    {w \in [item_embedding : {<<>>}, fc_user : Linears, fc_item : Linears, emb : {1}] :
        w.fc_user # w.fc_item}

\* an instance holding every attribute SASRecN.__init__ assigns, built by
\* the constructor's own assignments from a SequentialRecommender part
ScoreInstance(cfg, ds, w) ==
    SASRecN_init_body(
        [Blank EXCEPT !.cls = "SASRecN", !.attrs = BaseAttrs,
                      !.n_items = ds.n_items, !.item_cnt = ds.counter,
                      !.label_strategy = cfg.label, !.label_count = cfg.lcnt],
        cfg, ds,
        [w EXCEPT !.item_embedding = EmbTable(ds.n_items, w.emb)]).self

\* catalogs with fewer items than topk asks for, exactly as many, and more
CatalogSizes == {TopK - 1, TopK, TopK + 1}

InitScore ==
    /\ pc = "ready"
    /\ config \in [loss_type : {"BPR", "CE"}, label : {"log"}, lcnt : {1}, biasc : {2}]
    /\ \E n \in CatalogSizes, a \in {1} :
          dataset = [n_items |-> n, counter |-> CountTable(n, a)]
    /\ \E w \in ScoreWeights : self = ScoreInstance(config, dataset, w)
    /\ err = "none"
    /\ trace = [log_args |-> <<>>, divisors |-> <<>>]
    /\ call = Called("SASRecN", <<>>, <<>>, <<>>)
    /\ ret = NoReturn

\* batches of hidden vectors: one for the first query, one for the others
Batches ==
    {[q \in 1..B |-> IF q = 1 THEN a ELSE b] : a \in SeqVals, b \in SeqVals, B \in 1..MaxBatch}

\* item batches: every row holds the second item after the row before
ItemBatches(B) == {[q \in 1..B |-> p + 2 * (q - 1)] : p \in ItemPicks}

\* the call returned t or raised t.err; the object is as before
Returned(op, seq_output, items, t) ==
    /\ call' = Called(op, <<>>, seq_output, items)
    /\ err' = t.err
    /\ ret' = IF t.err = "none" THEN [kind |-> "tensor", t |-> t] ELSE NoReturn
    /\ UNCHANGED <<pc, config, dataset, trace>>

\* model.full_sort_predict(interaction)
FullSortPredict ==
    /\ pc = "ready"
    /\ self.cls = "SASRecN"
    /\ \E seq_output \in Batches :
          LET scores == FullScores(self, seq_output)
              B == Len(seq_output)
          IN  IF scores.err # "none"
              THEN Returned("full_sort_predict", seq_output, <<>>, scores)
                   /\ UNCHANGED self
              ELSE IF self.n_items < TopK
              THEN \* topk: "selected index k out of range"
                   Returned("full_sort_predict", seq_output, <<>>, Raised("RuntimeError"))
                   /\ UNCHANGED self
              ELSE /\ Len(self.pop_label) + B <= MaxPopLabel
                   /\ LET mypop == [q \in 1..B |-> PopOfRow(self, scores, q)]
                      IN  \E pops \in [1..B -> UNION {mypop[q] : q \in 1..B}] :
                             /\ \A q \in 1..B : pops[q] \in mypop[q]
                             /\ self' = [self EXCEPT !.pop_label = @ \o pops]
                   /\ Returned("full_sort_predict", seq_output, <<>>, scores)

\* model.predict(interaction)
Predict ==
    /\ pc = "ready"
    /\ self.cls = "SASRecN"
    /\ \E seq_output \in Batches : \E test_item \in ItemBatches(Len(seq_output)) :
          Returned("predict", seq_output, test_item, predict(self, seq_output, test_item))
    /\ UNCHANGED self

\* model.calculate_loss(interaction): what is handed to the loss function
CalculateLoss ==
    /\ pc = "ready"
    /\ self.cls = "SASRecN"
    /\ \E seq_output \in Batches : \E pos_items \in ItemBatches(Len(seq_output)) :
          IF self.loss_type = "BPR"
          THEN \E neg_items \in ItemBatches(Len(seq_output)) \ {pos_items} :
                  /\ call' = Called("calculate_loss", <<>>, seq_output, pos_items)
                  /\ err' = "none"
                  /\ ret' = [kind |-> "BPR",
                             pos_score |-> RowDot(seq_output,
                                 [q \in DOMAIN pos_items |-> self.item_embedding[pos_items[q] + 1]]),
                             neg_score |-> RowDot(seq_output,
                                 [q \in DOMAIN neg_items |-> self.item_embedding[neg_items[q] + 1]])]
          ELSE LET logits == FullScores(self, seq_output)
               IN  /\ call' = Called("calculate_loss", <<>>, seq_output, pos_items)
                   /\ err' = logits.err
                   /\ ret' = IF logits.err = "none"
                             THEN [kind |-> "CE", logits |-> logits]
                             ELSE NoReturn
    /\ UNCHANGED <<pc, config, dataset, trace, self>>

\* ranking and training calls on an instance
NextScore == FullSortPredict \/ CalculateLoss
SpecScore == InitScore /\ [][NextScore]_vars

\* pairwise prediction calls on an instance
NextPredict == Predict
SpecPredict == InitScore /\ [][NextPredict]_vars

\* construction of a model that labels with SequentialRecommender.cal_popular
InitPop == InitWith({cfg \in Configs : cfg.loss_type = "CE"}, Datasets)
NextPop == ConstructSequentialRecommender
SpecPop == InitPop /\ [][NextPop]_vars

\* the object super().__init__ hands to the rest of SASRecN.__init__: every
\* attribute of lines 152-171 is set, the labels are not yet computed
SASRecN_base(cfg, ds) ==
    [Blank EXCEPT !.cls = "SASRecN", !.attrs = BaseAttrs,
                  !.n_items = ds.n_items, !.item_cnt = ds.counter,
                  !.label_strategy = cfg.label, !.label_count = cfg.lcnt]

\* lines 40-92 of SASRecN.__init__ on that object
InitialiseSASRecN ==
    /\ pc = "new"
    /\ Finish(SASRecN_init_body(SASRecN_base(config, dataset), config, dataset, NoWeights),
              "SASRecN", <<>>)

\* the concrete model's own part of the construction, over every strategy
InitLabel == InitWith(Configs, SmallDatasets)
NextLabel == InitialiseSASRecN
SpecLabel == InitLabel /\ [][NextLabel]_vars

-----------------------------------------------------------------------------
(* The reporting and per-epoch operations, and the life of a built model *)

RECURSIVE Sum(_)
\* sum(list)
Sum(s) == IF s = <<>> THEN 0 ELSE s[1] + Sum(Tail(s))

\* sum(pop_label)/len(pop_label): the division by 10 left out
PopularRate_PerQuery(pop_label) ==
    [num |-> Sum(pop_label), den |-> Len(pop_label)]

\* sum(pop_label)/10/len(pop_label), kept as the fraction the float stands for
PopularRate(pop_label) ==
    [num |-> Sum(pop_label), den |-> 10 * Len(pop_label)]

\* the two last lines of either cal_curr_pop: the rate, then the print
Report(obj, pop_label) ==
    IF pop_label = <<>>
    THEN [err |-> "ZeroDivisionError", ret |-> NoReturn]
    ELSE IF obj.label = <<>>
    THEN \* max() of an empty list
         [err |-> "ValueError", ret |-> NoReturn]
    ELSE [err |-> "none",
          ret |-> [kind |-> "printed", pop |-> PopularRate(pop_label),
                   max |-> SeqMax(obj.label), count |-> Len(pop_label)]]

\* SASRecN.cal_curr_pop(): reports on the accumulated pop_label
SASRecN_cal_curr_pop(obj) == Report(obj, obj.pop_label)

\* the lists the loop over scores.topk(10)[1] can build, one entry per row
PopLists(obj, scores) ==
    LET B == scores.shape[1]
        mypop == [q \in 1..B |-> PopOfRow(obj, scores, q)]
    IN  {pops \in [1..B -> UNION {mypop[q] : q \in 1..B}] :
            \A q \in 1..B : pops[q] \in mypop[q]}

\* SequentialRecommender.cal_curr_pop(scores): every outcome it can have
SequentialRecommender_cal_curr_pop(obj, scores) ==
    IF scores.shape[2] < TopK
    THEN {[err |-> "RuntimeError", ret |-> NoReturn]}
    ELSE {Report(obj, pop_label) : pop_label \in PopLists(obj, scores)}

\* run_per_epoch(epoch) of an object whose vis attribute is vis: neither
\* class assigns moe_adaptor, which the visualisation reads first
run_per_epoch(vis, epoch) ==
    IF vis /\ epoch % 2 = 0
    THEN [err |-> "AttributeError", ret |-> NoReturn]
    ELSE [err |-> "none", ret |-> [kind |-> "None"]]

\* the call left the object as it was
Reported(op, seq_output, items, r) ==
    /\ call' = Called(op, <<>>, seq_output, items)
    /\ err' = r.err
    /\ ret' = r.ret
    /\ UNCHANGED <<pc, config, dataset, trace, self>>

\* the score matrix a caller hands to SequentialRecommender.cal_curr_pop
ScoresOf(obj, seq_output) == MatMul(seq_output, EmbTable(obj.n_items, 1))

\* model.cal_curr_pop() on the concrete model, model.cal_curr_pop(scores) on
\* a model that inherits it
CalCurrPop ==
    /\ pc = "ready"
    /\ IF self.cls = "SASRecN"
       THEN Reported("cal_curr_pop", <<>>, <<>>, SASRecN_cal_curr_pop(self))
       ELSE \E seq_output \in Batches :
               \E r \in SequentialRecommender_cal_curr_pop(self, ScoresOf(self, seq_output)) :
                   Reported("cal_curr_pop", seq_output, <<>>, r)

Epochs == {0, 1}

\* model.run_before_epoch(epoch)
RunBeforeEpoch ==
    /\ pc = "ready"
    /\ \E epoch \in Epochs :
          Reported("run_before_epoch", <<>>, <<epoch>>, [err |-> "none", ret |-> [kind |-> "None"]])

\* model.run_per_epoch(epoch); vis is config['vis'], which the constructor
\* stores and nothing else reads
RunPerEpoch ==
    /\ pc = "ready"
    /\ \E epoch \in Epochs : \E vis \in BOOLEAN :
          Reported("run_per_epoch", <<>>, <<epoch>>, run_per_epoch(vis, epoch))

\* self.b_ratio = ratio: the statement of a subclass that calcualte_bias_label
\* relies on
AssignBRatio ==
    /\ pc = "ready"
    /\ self.cls = "SequentialRecommender"
    /\ "b_ratio" \notin self.attrs
    /\ \E ratio \in {<<2, 5>>} :
          self' = [self EXCEPT !.attrs = @ \cup {"b_ratio"}, !.b_ratio = ratio]
    /\ call' = Called("b_ratio", <<>>, <<>>, <<>>)
    /\ err' = "none"
    /\ ret' = NoReturn
    /\ UNCHANGED <<pc, config, dataset, trace>>

\* catalogs in which every item has its own count
LifeDatasets == {[n_items |-> n, counter |-> [i \in 1..n |-> i]] : n \in CatalogSizes}

\* either a built instance of the concrete model, or the inputs of the
\* construction of a model that inherits every operation
InitLife ==
    \/ /\ pc = "ready"
       /\ config = [loss_type |-> "CE", label |-> "log", lcnt |-> 1, biasc |-> 2]
       /\ \E n \in {TopK - 1, TopK} :
              dataset = [n_items |-> n, counter |-> CountTable(n, 1)]
       /\ self = ScoreInstance(config, dataset,
                               [item_embedding |-> <<>>, fc_user |-> [w |-> 1, b |-> 0],
                                fc_item |-> [w |-> -1, b |-> 1], emb |-> 1])
       /\ err = "none"
       /\ trace = [log_args |-> <<>>, divisors |-> <<>>]
       /\ call = Called("SASRecN", <<>>, <<>>, <<>>)
       /\ ret = NoReturn
    \/ InitWith({cfg \in Configs : cfg.loss_type = "CE" /\ cfg.lcnt = 1}, LifeDatasets)

NextLife ==
    \/ ConstructSequentialRecommender
    \/ AssignBRatio
    \/ FullSortPredict
    \/ Predict
    \/ CalculateLoss
    \/ CalCurrPop
    \/ CalcualteBiasLabel
    \/ RunBeforeEpoch
    \/ RunPerEpoch
SpecLife == InitLife /\ [][NextLife]_vars

-----------------------------------------------------------------------------
(* The bias classifier's operations *)

RECURSIVE FirstMissing(_, _)
\* nn.Module.__getattr__: the first of the names read, in order, that the
\* object does not have; "none" when it has them all
FirstMissing(obj, names) ==
    IF names = <<>> THEN "none"
    ELSE IF Head(names) \notin obj.attrs THEN Head(names)
    ELSE FirstMissing(obj, Tail(names))

\* lines 230-231
init_bias_layer(obj) ==
    IF "hidden_size" \notin obj.attrs
    THEN [self |-> obj, err |-> "AttributeError", ret |-> NoReturn]
    ELSE [self |-> [obj EXCEPT !.attrs = @ \cup {"item_bias_layer"}],
          err |-> "none", ret |-> [kind |-> "None"]]

\* lines 234-240; roc_auc_score needs both classes among the labels, the
\* printed auc depends on the classifier's parameters and is left out
predict_bias(obj) ==
    IF FirstMissing(obj, <<"item_embedding", "item_bias_layer", "bias_idx", "bias_label">>) # "none"
    THEN [err |-> "AttributeError", ret |-> NoReturn]
    ELSE IF obj.n_items = 1
    THEN \* squeeze() leaves no dimension to index
         [err |-> "IndexError", ret |-> NoReturn]
    ELSE IF {obj.bias_label[p] : p \in DOMAIN obj.bias_label} # {0, 1}
    THEN [err |-> "ValueError", ret |-> NoReturn]
    ELSE [err |-> "none", ret |-> [kind |-> "printed"]]

\* lines 243-248; self.bloss is looked up before self.bias_label
calculate_bias_loss(obj) ==
    IF FirstMissing(obj, <<"item_embedding", "item_bias_layer", "bias_idx", "bloss",
                           "bias_label">>) # "none"
    THEN [err |-> "AttributeError", ret |-> NoReturn]
    ELSE IF obj.n_items = 1
    THEN [err |-> "IndexError", ret |-> NoReturn]
    ELSE [err |-> "none", ret |-> [kind |-> "loss"]]

\* model.init_bias_layer()
InitBiasLayer ==
    /\ pc = "ready"
    /\ LET r == init_bias_layer(self)
       IN  /\ self' = r.self
           /\ err' = r.err
           /\ ret' = r.ret
    /\ call' = Called("init_bias_layer", <<>>, <<>>, <<>>)
    /\ UNCHANGED <<pc, config, dataset, trace>>

\* model.predict_bias()
PredictBias ==
    /\ pc = "ready"
    /\ Reported("predict_bias", <<>>, <<>>, predict_bias(self))

\* model.calculate_bias_loss()
CalculateBiasLoss ==
    /\ pc = "ready"
    /\ Reported("calculate_bias_loss", <<>>, <<>>, calculate_bias_loss(self))

\* the ratios of the instances below: 0.4, 0.5, and 1, which indexes past
\* the end of the sorted counts; <<>> stands for b_ratio never assigned
LifeRatios == {<<2, 5>>, <<1, 2>>, <<1, 1>>, <<>>}

\* two count vectors over a catalog one item short of what topk asks for
LifeCounters == {CountTable(TopK - 1, a) : a \in {1, 5}}

\* a built instance of the concrete model to which the caller has or has
\* not assigned b_ratio
InitBiasLife ==
    /\ pc = "ready"
    /\ config = [loss_type |-> "CE", label |-> "log", lcnt |-> 1, biasc |-> 2]
    /\ \E cnt \in LifeCounters : dataset = [n_items |-> TopK - 1, counter |-> cnt]
    /\ \E ratio \in LifeRatios :
          LET obj == ScoreInstance(config, dataset,
                                   [item_embedding |-> <<>>, fc_user |-> [w |-> 1, b |-> 0],
                                    fc_item |-> [w |-> -1, b |-> 1], emb |-> 1])
          IN  self = IF ratio = <<>> THEN obj
                     ELSE [obj EXCEPT !.attrs = @ \cup {"b_ratio"}, !.b_ratio = ratio]
    /\ err = "none"
    /\ trace = [log_args |-> <<>>, divisors |-> <<>>]
    /\ call = Called("SASRecN", <<>>, <<>>, <<>>)
    /\ ret = NoReturn

NextBiasLife ==
    \/ CalcualteBiasLabel
    \/ InitBiasLayer
    \/ PredictBias
    \/ CalculateBiasLoss
    \/ FullSortPredict
    \/ Predict
    \/ CalculateLoss
    \/ CalCurrPop
    \/ RunBeforeEpoch
    \/ RunPerEpoch
SpecBiasLife == InitBiasLife /\ [][NextBiasLife]_vars

-----------------------------------------------------------------------------
(* Claims about construction and popularity labels *)

\* the clamped count of item k-1 of the constructed model
V(k) == Clamp(dataset.counter[k])

Items == 1..dataset.n_items

Labelled(strategy) ==
    /\ pc = "ready"
    /\ call.op = "SequentialRecommender"
    /\ self.label_strategy = strategy

\* C3 (as claimed): constructing SASRecN with loss type BPR or CE completes with
\* the pairwise-ranking or the cross-entropy loss selected, and any other
\* loss type halts construction with NotImplementedError.
C3_ConstructionFollowsLossType ==
    call.op = "SASRecN" =>
        IF config.loss_type = "BPR"
        THEN pc = "ready" /\ err = "none" /\ self.loss_fct = "BPRLoss"
        ELSE IF config.loss_type = "CE"
        THEN pc = "ready" /\ err = "none" /\ self.loss_fct = "CrossEntropyLoss"
        ELSE pc = "failed" /\ err = "NotImplementedError"

\* the 0-based position of item i-1 in the sorted order p
RankIn(p, i) == CHOOSE r \in 0..(Len(p) - 1) : p[r + 1] = i - 1

\* C4 (as claimed): under 'arg' every item's label is
\* round(bucket_count * rank / n) with rank the item's own position in the
\* ascending order of the clamped counts, so a larger count never gets a
\* smaller label.
C4_ArgLabelIsOwnRank ==
    Labelled("arg") =>
        /\ \E p \in ArgSorts([k \in Items |-> V(k)]) :
              \A i \in Items :
                  self.label[i] = PyRound(self.label_count * RankIn(p, i), dataset.n_items)
        /\ \A i, j \in Items : V(i) < V(j) => self.label[i] <= self.label[j]

\* floor(e^(2k - 1)) for k = 1..5
EOddFloor == <<2, 20, 148, 1096, 8103>>

\* l - 1/2 <= ln v < l + 1/2, stated on v * v against e^(2l - 1) and e^(2l + 1)
InLogBracket(l, v) ==
    /\ l \in 0..4
    /\ l = 0 \/ v * v > EOddFloor[l]
    /\ v * v <= EOddFloor[l + 1]

\* C6: under 'log' every item's label is round(ln(clamped count)), the label
\* is non-decreasing in the count, and counts [5, 1, 10, 2] give [2, 0, 2, 1].
C6_LogLabels ==
    Labelled("log") =>
        /\ \A k \in Items : InLogBracket(self.label[k], V(k))
        /\ \A i, j \in Items :
              dataset.counter[i] <= dataset.counter[j] => self.label[i] <= self.label[j]
        /\ dataset.counter = <<5, 1, 10, 2>> => self.label = <<2, 0, 2, 1>>

C6_Witness ==
    /\ Labelled("log")
    /\ dataset.counter = <<5, 1, 10, 2>>
    /\ self.label = <<2, 0, 2, 1>>

\* the largest clamped count
MaxV == CHOOSE m \in {V(k) : k \in Items} : \A k \in Items : V(k) <= m

\* C7: under 'avg' every item's label is bucket_count * count / max_count
\* rounded to a nearest integer (count being the clamped count the formula
\* receives), the label is non-decreasing in the count, and an item whose
\* count is the maximum gets the label bucket_count.
C7_AvgLabels ==
    Labelled("avg") =>
        /\ \A k \in Items :
              LET d == 2 * self.label_count * V(k) - 2 * self.label[k] * MaxV
              IN  -MaxV <= d /\ d <= MaxV
        /\ \A i, j \in Items :
              dataset.counter[i] <= dataset.counter[j] => self.label[i] <= self.label[j]
        /\ \A k \in Items :
              (\A j \in Items : dataset.counter[j] <= dataset.counter[k])
                  => self.label[k] = self.label_count

C7_Witness ==
    /\ Labelled("avg")
    /\ \E i, j, k \in Items :
          /\ self.label[i] < self.label[j]
          /\ self.label[j] < self.label[k]
          /\ self.label[k] = self.label_count
          /\ dataset.counter[i] = 0

Distinct(s) == \A i, j \in DOMAIN s : i # j => s[i] # s[j]

SameOrder(a, b) == \A i, j \in DOMAIN a : a[i] < a[j] <=> b[i] < b[j]

IsPermutation(lidx, n) ==
    /\ Len(lidx) = n
    /\ {lidx[i] : i \in 1..n} = 0..(n - 1)

\* every label list cal_popular can produce under 'arg' for the counts cnt
ArgLabelLists(cnt, lcnt) ==
    {CalPopular(Len(cnt), cnt, "arg", lcnt, p).label :
        p \in ArgSorts(ClampedCounts(Len(cnt), cnt))}

\* C8 (as claimed): under 'arg' the rank values are a permutation of [0, n),
\* and two count vectors of the same length with pairwise-distinct counts and
\* the same ordering of the items get identical label lists (read in the
\* claim's favour: the labels computed are among those the other vector can
\* get, whichever way argsort orders equal elements).
C8_ArgDependsOnOrderOnly ==
    Labelled("arg") =>
        /\ IsPermutation(call.lidx, dataset.n_items)
        /\ Distinct(dataset.counter) =>
              \A c2 \in [Items -> 0..MaxCount] :
                  Distinct(c2) /\ SameOrder(dataset.counter, c2)
                      => self.label \in ArgLabelLists(c2, self.label_count)

\* C8 (amended): under 'arg' the rank values are a permutation of [0, n),
\* and two count vectors of the same length whose clamped counts
\* max(count, 1) are pairwise distinct and order the items the same way get
\* identical label lists.
C8_ArgDependsOnClampedOrderOnly ==
    Labelled("arg") =>
        /\ IsPermutation(call.lidx, dataset.n_items)
        /\ Distinct([k \in Items |-> V(k)]) =>
              \A c2 \in [Items -> 0..MaxCount] :
                  LET v2 == ClampedCounts(dataset.n_items, c2)
                  IN  Distinct(v2) /\ SameOrder([k \in Items |-> V(k)], v2)
                          => ArgLabelLists(c2, self.label_count) = {self.label}

C8_Witness ==
    /\ Labelled("arg")
    /\ dataset.n_items >= 3
    /\ Distinct([k \in Items |-> V(k)])
    /\ \E i, j \in Items : self.label[i] # self.label[j]
    /\ \E c2 \in [Items -> 0..MaxCount] :
          /\ \A k \in Items : c2[k] # dataset.counter[k]
          /\ Distinct(ClampedCounts(dataset.n_items, c2))
          /\ SameOrder([k \in Items |-> V(k)], ClampedCounts(dataset.n_items, c2))

\* C9: for every strategy and every count mapping cal_popular returns
\* n_items labels, the label at position k computed for item k from
\* max(count[k], 1); math.log is evaluated on exactly these clamped counts,
\* never on 0, and no divisor is 0.
C9_ClampedLabels ==
    (call.op = "SequentialRecommender") =>
        /\ pc = "ready" /\ err = "none"
        /\ Len(self.label) = dataset.n_items
        /\ trace.log_args = [k \in Items |-> IF dataset.counter[k] = 0 THEN 1
                                             ELSE dataset.counter[k]]
        /\ \A i \in DOMAIN trace.log_args : trace.log_args[i] >= 1
        /\ \A i \in DOMAIN trace.divisors : trace.divisors[i] >= 1
        /\ \A k \in Items :
              self.label[k] =
                  IF self.label_strategy = "avg"
                  THEN PyRound(self.label_count * V(k), MaxV)
                  ELSE IF self.label_strategy = "arg"
                  THEN PyRound(self.label_count * call.lidx[k], dataset.n_items)
                  ELSE RoundLog(V(k))

C9_Witness ==
    /\ Labelled("avg")
    /\ Len(self.label) = dataset.n_items
    /\ \E i, j \in Items :
          /\ dataset.counter[i] = 0
          /\ self.label[i] > 0
          /\ self.label[i] < self.label[j]

-----------------------------------------------------------------------------
(* Claims about the bias partition *)

BiasDone == call.op = "calcualte_bias_label" /\ err = "none"

\* item indices (0-based) with bias label 1 and with bias label 0
High == {self.bias_idx[p] : p \in {q \in DOMAIN self.bias_idx : self.bias_label[q] = 1}}
Low == {self.bias_idx[p] : p \in {q \in DOMAIN self.bias_idx : self.bias_label[q] = 0}}

\* the m-th smallest and the m-th largest clamped count, 1 <= m <= n
Smallest(m) == Sorted([k \in Items |-> V(k)])[m]
Largest(m) == Sorted([k \in Items |-> V(k)])[dataset.n_items - m + 1]

\* C5 (as claimed): with mid_i = int(n * ratio), label 1 goes to exactly the
\* items whose count is at least the mid_i-th largest count, label 0 only to
\* items whose count is at most the mid_i-th smallest count, the items in
\* between get neither; counts [1,2,3,4,5] with ratio 0.4 give bias_line 4,
\* nobias_line 2, high = counts {4,5}, low = counts {1,2}, count 3 excluded.
C5_BiasPartitionTails ==
    LET mid_i == TruncMul(dataset.n_items, self.b_ratio)
    IN  (BiasDone /\ mid_i >= 1) =>
            /\ High = {k - 1 : k \in {j \in Items : V(j) >= Largest(mid_i)}}
            /\ Low \subseteq {k - 1 : k \in {j \in Items : V(j) <= Smallest(mid_i)}}
            /\ \A k \in Items :
                  (Smallest(mid_i) < V(k) /\ V(k) < Largest(mid_i))
                      => (k - 1) \notin (High \cup Low)
            /\ (dataset.counter = <<1, 2, 3, 4, 5>> /\ self.b_ratio = <<2, 5>>) =>
                  /\ ret.bias_line = 4
                  /\ ret.nobias_line = 2
                  /\ High = {3, 4}
                  /\ Low = {0, 1}

\* C10: whenever calcualte_bias_label completes, no index is in both
\* partitions, no index is twice in bias_idx, the partitions hold at most n
\* indices, and fewer than n when some count lies strictly between
\* nobias_line and bias_line.
C10_PartitionsDisjoint ==
    BiasDone =>
        /\ High \cap Low = {}
        /\ Distinct(self.bias_idx)
        /\ Len(self.bias_idx) = Len(self.bias_label)
        /\ \A p \in DOMAIN self.bias_idx : self.bias_idx[p] \in 0..(dataset.n_items - 1)
        /\ Len(self.bias_idx) <= dataset.n_items
        /\ (\E k \in Items : ret.nobias_line < V(k) /\ V(k) < ret.bias_line)
              => Len(self.bias_idx) < dataset.n_items

C10_Witness ==
    /\ BiasDone
    /\ High # {}
    /\ Low # {}
    /\ \E k \in Items : ret.nobias_line < V(k) /\ V(k) < ret.bias_line
    /\ Len(self.bias_idx) < dataset.n_items

-----------------------------------------------------------------------------
(* Scores of a SASRecN instance (SpecScore) *)

\* the batch of the last call
NRows == Len(call.seq_output)

\* user_score[q], item_score of the item with embedding e, in hundredths
UserProb(q) ==
    SigmoidTable[self.fc_user.w * call.seq_output[q] + self.fc_user.b + 4]
ItemProb(e) ==
    SigmoidTable[self.fc_item.w * e + self.fc_item.b + 4]

\* raw * user_score[q] * item_score - c * user_score[q] * item_score
Adjusted(raw, q, e) ==
    raw * UserProb(q) * ItemProb(e) - self.c * UserProb(q) * ItemProb(e)

\* the matrix full_sort_predict returned or calculate_loss handed to the
\* cross-entropy loss
Matrix == IF ret.kind = "CE" THEN ret.logits ELSE ret.t

FullCatalogCall ==
    \/ call.op = "full_sort_predict"
    \/ call.op = "calculate_loss" /\ self.loss_type = "CE"

\* C1: for a batch of at least two queries, every score full_sort_predict
\* returns and every logit the cross-entropy branch of calculate_loss hands
\* to the loss is raw[q,i] * user_score[q] * item_score[i]
\* - c * user_score[q] * item_score[i], for every query q and every item i;
\* the cross-entropy branch always gets that far, and full_sort_predict
\* does whenever the catalog has at least TopK items.
C1_AdjustedFullCatalogScores ==
    (FullCatalogCall /\ NRows >= 2) =>
        /\ err = "none" <=> (call.op = "calculate_loss" \/ self.n_items >= TopK)
        /\ err = "none" =>
              /\ Matrix.shape = <<NRows, self.n_items>>
              /\ \A q \in 1..NRows : \A i \in 1..self.n_items :
                    Matrix.at[<<q, i>>] =
                        Adjusted(call.seq_output[q] * self.item_embedding[i], q,
                                 self.item_embedding[i])

\* a cross-entropy calculate_loss on two queries with different scores for
\* the same item, after full_sort_predict has ranked a batch
C1_Witness ==
    /\ call.op = "calculate_loss"
    /\ ret.kind = "CE"
    /\ NRows = 2
    /\ self.pop_label # <<>>
    /\ \E i \in 1..self.n_items :
          /\ ret.logits.at[<<1, i>>] # ret.logits.at[<<2, i>>]
          /\ ret.logits.at[<<1, i>>] # 0

\* C2: predict on a batch of B rows returns one score per row (shape [B]),
\* the score of row q being raw[q] * user_score[q] * item_score[q]
\* - c * user_score[q] * item_score[q] with row q's own target item.
C2_PredictOneScorePerRow ==
    call.op = "predict" =>
        /\ err = "none"
        /\ ret.t.shape = <<NRows>>
        /\ \A q \in 1..NRows :
              LET e == self.item_embedding[call.items[q] + 1]
              IN  ret.t.at[<<q>>] = Adjusted(call.seq_output[q] * e, q, e)


-----------------------------------------------------------------------------
(* The labels of the concrete model (SpecLabel) *)

\* the label lists the configured strategy gives for the dataset's counts
ConfiguredLabels ==
    {CalPopular(dataset.n_items, dataset.counter, config.label, config.lcnt, lidx).label :
        lidx \in ArgSorts(ClampedCounts(dataset.n_items, dataset.counter))}

\* C11 (as claimed): after the construction of the concrete model, label is
\* the result of the configured strategy ('log', 'avg' or 'arg') with the
\* configured bucket count applied to the dataset's item counts.
C11_LabelsFollowConfiguredStrategy ==
    (pc = "ready" /\ self.cls = "SASRecN") => self.label \in ConfiguredLabels

-----------------------------------------------------------------------------
(* Claims about the life of a built model (SpecLife) *)

C13_AccumulatorGrowsByBatch ==
    [][(pc = "ready" /\ self.cls = "SASRecN" /\ self.n_items >= TopK) =>
          IF call'.op = "full_sort_predict"
          THEN LET B == Len(call'.seq_output)
                   old == Len(self.pop_label)
               IN  /\ Len(self'.pop_label) = old + B
                   /\ SubSeq(self'.pop_label, 1, old) = self.pop_label
                   /\ \A q \in 1..B :
                         self'.pop_label[old + q]
                             \in PopOfRow(self, FullScores(self, call'.seq_output), q)
          ELSE self'.pop_label = self.pop_label]_vars

\* the per-query label sums a cal_curr_pop call on obj reports on
QuerySums(obj, c) ==
    IF obj.cls = "SASRecN" THEN {obj.pop_label}
    ELSE PopLists(obj, ScoresOf(obj, c.seq_output))

\* m is the largest entry of label
IsMaxOf(m, label) ==
    /\ \E i \in DOMAIN label : label[i] = m
    /\ \A i \in DOMAIN label : label[i] <= m

\* C14 (as claimed): the value cal_curr_pop reports is the sum over the
\* queries of the query's top-10 label sum divided by the number of
\* queries, reported with the largest label and the number of queries.
C14_RateIsSumPerQuery ==
    (call.op = "cal_curr_pop" /\ err = "none") =>
        \E sums \in QuerySums(self, call) :
            /\ ret.pop.num * Len(sums) = Sum(sums) * ret.pop.den
            /\ IsMaxOf(ret.max, self.label)
            /\ ret.count = Len(sums)

\* C14 (amended): the value cal_curr_pop reports is the sum over the queries
\* of the query's top-10 label sum divided by 10 and by the number of
\* queries (the mean label of a recommended item); it is reported with the
\* largest label and the number of queries, and the call, whether it
\* reports or raises, leaves the object (label and pop_label included) as
\* it was.
C14_RateIsMeanLabelOfTopItems ==
    [][call'.op = "cal_curr_pop" =>
          /\ self' = self
          /\ err' = "none" =>
                \E sums \in QuerySums(self, call') :
                    /\ ret'.pop.num * (10 * Len(sums)) = Sum(sums) * ret'.pop.den
                    /\ IsMaxOf(ret'.max, self.label)
                    /\ ret'.count = Len(sums)
                    /\ self.cls = "SASRecN" \/ Len(sums) = Len(call'.seq_output)]_vars

\* the concrete model reports on an accumulator that holds at least two
\* queries with a positive label sum
C14_Witness ==
    /\ call.op = "cal_curr_pop"
    /\ err = "none"
    /\ self.cls = "SASRecN"
    /\ ret.count >= 2
    /\ ret.pop.num > 0

-----------------------------------------------------------------------------
(* Claims about the life of the bias labels (SpecBiasLife) *)

BiasAttrs == {"bias_label", "bias_idx"}

\* C15: a built model has neither bias_label nor bias_idx; only a
\* completed calcualte_bias_label call brings them into existence, and
\* calculate_bias_loss or predict_bias called before that raises; every
\* other operation leaves them as they are, and a further
\* calcualte_bias_label call computes the same bias_idx and bias_label again.
C15_BiasLabelsLazyThenFixed ==
    /\ self.attrs \cap BiasAttrs = {}
    /\ [][/\ (self'.attrs \cap BiasAttrs) # (self.attrs \cap BiasAttrs) =>
                 /\ call'.op = "calcualte_bias_label"
                 /\ err' = "none"
                 /\ BiasAttrs \subseteq self'.attrs
          /\ (call'.op \in {"calculate_bias_loss", "predict_bias"}
                  /\ self.attrs \cap BiasAttrs = {}) => err' # "none"
          /\ (call'.op # "calcualte_bias_label" \/ BiasAttrs \subseteq self.attrs) =>
                 /\ self'.bias_idx = self.bias_idx
                 /\ self'.bias_label = self.bias_label]_vars

\* calcualte_bias_label completed on a model whose lists already existed
C15_Witness ==
    /\ call.op = "calcualte_bias_label"
    /\ err = "none"
    /\ ret.bias_cnt + ret.nobias_cnt > 0
    /\ Len(self.bias_idx) = ret.bias_cnt + ret.nobias_cnt
    /\ "item_bias_layer" \in self.attrs

-----------------------------------------------------------------------------
(* Claims about batches of one query (SpecScore) *)

\* C16 (as claimed): for every batch size B >= 1, B = 1 included,
\* full_sort_predict (on a catalog topk can rank) returns a B x n_items
\* matrix and the cross-entropy branch of calculate_loss reaches its loss
\* terms with B x n_items logits; the reshaping raises no dimension error.
C16_SingleQueryBatchIsWellDefined ==
    (\/ call.op = "full_sort_predict" /\ self.n_items >= TopK
     \/ call.op = "calculate_loss" /\ self.loss_type = "CE") =>
        /\ err = "none"
        /\ Matrix.shape = <<NRows, self.n_items>>

-----------------------------------------------------------------------------
(* Claims about the lists calcualte_bias_label builds (SpecBias) *)

\* the indices that reach the low test and pass it
Qualifying ==
    {k - 1 : k \in {j \in Items : V(j) < ret.bias_line /\ V(j) <= ret.nobias_line}}

\* the m lowest indices of S (all of S when it has no more than m)
FirstOf(S, m) == {i \in S : Cardinality({j \in S : j < i}) < m}

\* C17: after calcualte_bias_label completes with mid_i = int(n * ratio),
\* bias_idx and bias_label are equally long and aligned (entry p labels
\* item bias_idx[p]), bias_idx is strictly increasing, every item whose
\* count is >= bias_line is labelled 1 even if its count is also
\* <= nobias_line, and, the ratio being a fraction (mid_i >= 0), at most
\* mid_i + 1 entries are labelled 0: the first mid_i + 1 qualifying items
\* in index order.
C17_BiasListsAlignedAndCapped ==
    LET mid_i == TruncMul(dataset.n_items, self.b_ratio)
    IN  BiasDone =>
            /\ Len(self.bias_idx) = Len(self.bias_label)
            /\ \A p \in DOMAIN self.bias_idx :
                  /\ self.bias_idx[p] \in 0..(dataset.n_items - 1)
                  /\ self.bias_label[p] \in {0, 1}
                  /\ self.bias_label[p] = 1 <=> V(self.bias_idx[p] + 1) >= ret.bias_line
                  /\ self.bias_label[p] = 0 => V(self.bias_idx[p] + 1) <= ret.nobias_line
            /\ \A p, q \in DOMAIN self.bias_idx :
                  p < q => self.bias_idx[p] < self.bias_idx[q]
            /\ \A k \in Items : V(k) >= ret.bias_line => (k - 1) \in High
            /\ mid_i >= 0 =>
                  /\ Cardinality(Low) <= mid_i + 1
                  /\ Low = FirstOf(Qualifying, mid_i + 1)
            /\ ret.bias_cnt = Cardinality(High)
            /\ ret.nobias_cnt = Cardinality(Low)

\* more items pass the low test than the cap keeps
C17_Witness ==
    /\ BiasDone
    /\ TruncMul(dataset.n_items, self.b_ratio) >= 1
    /\ Cardinality(Qualifying) > TruncMul(dataset.n_items, self.b_ratio) + 1
    /\ Cardinality(Low) = TruncMul(dataset.n_items, self.b_ratio) + 1
    /\ High # {}

=============================================================================
